---- MODULE Spec2Model ----
(***************************************************************************)
(* Model of datahub_actions/entrypoints.py: the command-line bootstrap of  *)
(* DataHub Actions.  One run of main() is a sequence of steps: click       *)
(* parses the top-level flags, the group callback datahub_actions()        *)
(* configures the 'datahub_actions' logger, optionally starts the metrics  *)
(* listener and fills the invocation context, the sub-command runs, and    *)
(* main() turns the outcome into a process exit code.                      *)
(*                                                                         *)
(* The logging library is modelled by what it does to a record: the        *)
(* logger's effective level, the walk up the logger chain while propagate  *)
(* is set, each handler's level and filters, and the last-resort handler.  *)
(***************************************************************************)
EXTENDS Integers, Sequences, FiniteSets, TLC

VARIABLES
    argv,            \* the top-level command line of this invocation
    env,             \* value of the DATAHUB_DEBUG environment variable
    callerObj,       \* ctx.obj as supplied by the caller of the group (None or a dict)
    ctxObj,          \* ctx.obj of the group's click.Context
    hdlr,            \* heap of logging.Handler objects, indexed by identity
    rootLevel,       \* logging.getLogger().level
    rootHandlers,    \* logging.getLogger().handlers
    dhLevel,         \* logging.getLogger("datahub_actions").level
    dhHandlers,      \* logging.getLogger("datahub_actions").handlers
    dhPropagate,     \* logging.getLogger("datahub_actions").propagate
    info_handler,    \* local of datahub_actions(): identity of the stdout handler (0: unbound)
    error_handler,   \* local of datahub_actions(): identity of the stderr handler
    file_handler,    \* local of datahub_actions(): identity of the file handler
    startCalls,      \* ports passed to start_http_server in this invocation
    listening,       \* ports the metrics listener is bound to
    bindFailed,      \* start_http_server raised in this invocation
    pc,              \* position of the run
    exc,             \* exception in flight or handled by main ("none": none)
    retval,          \* value returned by datahub_actions(standalone_mode=False)
    exitCode,        \* code passed to sys.exit (-1: no exit yet)
    out,             \* what this invocation wrote: records [stream, msg]
    logCalls,        \* logger calls made by main: records [level, msg]
    hist,            \* steps of this invocation, in order
    reconfigs,       \* reconfigurations of the root logger by other code so far
    invocations      \* invocations of the command group in this process

vars == <<argv, env, callerObj, ctxObj, hdlr, rootLevel, rootHandlers, dhLevel,
          dhHandlers, dhPropagate, info_handler, error_handler, file_handler,
          startCalls, listening, bindFailed, pc, exc, retval, exitCode, out,
          logCalls, hist, reconfigs, invocations>>

loggingVars == <<hdlr, rootLevel, rootHandlers, dhLevel, dhHandlers, dhPropagate>>
localVars == <<info_handler, error_handler, file_handler>>
metricsVars == <<startCalls, listening, bindFailed>>
inputVars == <<argv, env, callerObj>>

---------------------------------------------------------------------------
(* Bounds of the model *)

MaxRootReconfigs == 2
MaxRootHandlers == 2
MaxInvocations == 2

---------------------------------------------------------------------------
(* Severities of the logging library, as the source names them *)

NOTSET == 0
DEBUG == 10
INFO == 20
WARNING == 30
ERROR == 40

\* Severities of the records tried against the configuration: below DEBUG,
\* the named levels, one between INFO and WARNING, and CRITICAL.
RecordLevels == {DEBUG - 5, DEBUG, INFO, INFO + 5, WARNING, ERROR, ERROR + 10}

DefaultMonitoringPort == 8000

---------------------------------------------------------------------------
(* The command line and the environment *)

DebugOptions == {"--debug", "--no-debug", "omitted"}
EnvValues == {"true", "false", "unset"}
\* --monitoring-port: omitted, or one value
PortOptions == {<<>>, <<9999>>}
\* what follows the top-level flags: a sub-command, --version, or an option
\* the group does not know
Forms == {"subcommand", "version", "unknown_option"}

Argvs == [debug : DebugOptions, monitoring : BOOLEAN, port : PortOptions,
          dl : BOOLEAN, form : Forms]

\* click.option("--debug/--no-debug", default=False)
debug(a) == a.debug = "--debug"

\* click.option("--enable-monitoring", is_flag=True, default=False)
enable_monitoring(a) == a.monitoring

\* variant: the listener port is not taken from the command line
monitoring_port_default_only(a) == DefaultMonitoringPort

\* click.option("--monitoring-port", type=int, default=8000)
monitoring_port(a) == IF a.port = <<>> THEN DefaultMonitoringPort ELSE a.port[1]

\* click.option("-dl", "--detect-memory-leaks", is_flag=True, default=False)
detect_memory_leaks(a) == a.dl

\* get_boolean_env_variable("DATAHUB_DEBUG", False)
get_boolean_env_variable(value, default) ==
    IF value = "unset" THEN default ELSE value = "true"

\* variant: the environment is consulted only when neither --debug nor
\* --no-debug was passed
DebugConditionFlagFirst(a, e) ==
    IF a.debug # "omitted" THEN debug(a) ELSE get_boolean_env_variable(e, FALSE)

\* the condition of the if at "4. Adjust log-levels"
DebugCondition(a, e) == debug(a) \/ get_boolean_env_variable(e, FALSE)

---------------------------------------------------------------------------
(* The invocation context: ctx.obj is None or a dict *)

\* None is the empty tuple, any other value v is <<v>>
None == <<>>
Absent == "absent"
Keys == {"detect_memory_leaks", "other"}
EmptyDict == [k \in Keys |-> Absent]
PyBool(b) == IF b THEN "True" ELSE "False"

\* what the caller of the group may pass as obj: nothing, or a dict
CallerObjs == {None,
               <<[EmptyDict EXCEPT !["other"] = "x"]>>,
               <<[EmptyDict EXCEPT !["other"] = "x",
                                   !["detect_memory_leaks"] = "True"]>>}

\* variant: a new dict replaces whatever the context held
ensure_object_always_new(obj) == <<EmptyDict>>

\* ctx.ensure_object(dict): the dict already there, or a new one
ensure_object(obj) == IF obj = None THEN <<EmptyDict>> ELSE obj

\* ctx.obj["detect_memory_leaks"] = detect_memory_leaks
SetLeakEntry(obj, a) ==
    <<[obj[1] EXCEPT !["detect_memory_leaks"] = PyBool(detect_memory_leaks(a))]>>

---------------------------------------------------------------------------
(* Handlers and loggers *)

\* variant: the comparison of the filter is turned around
LogFilterInverted(level, levelno) == levelno >= level

\* class LogFilter: lets through all records with levelno <= level
LogFilter(level, levelno) == levelno <= level

\* logging.lastResort: a stderr handler at WARNING, used when a record finds
\* no handler at all
lastResort == [stream |-> "stderr", level |-> WARNING, filters |-> <<>>]

\* handler identity 0 is the last-resort handler
Hdlr(h) == IF h = 0 THEN lastResort ELSE hdlr[h]

\* Handler.handle after the level test of callHandlers: every filter passes
HandlerAccepts(h, levelno) ==
    /\ levelno >= Hdlr(h).level
    /\ \A i \in 1..Len(Hdlr(h).filters) : LogFilter(Hdlr(h).filters[i], levelno)

\* the handler logging.basicConfig installs on the root logger at import
BasicConfigHandler == [stream |-> "stderr", level |-> NOTSET, filters |-> <<>>]

\* the three handlers datahub_actions() creates, before any level adjustment
NewInfoHandler == [stream |-> "stdout", level |-> INFO, filters |-> <<INFO>>]
NewErrorHandler == [stream |-> "stderr", level |-> WARNING, filters |-> <<>>]
NewFileHandler == [stream |-> "file", level |-> INFO, filters |-> <<>>]

\* variant: propagation is left at the library's default
PropagateLeftOn == TRUE

\* datahub_logger.propagate after step 3
PropagateAfterSetup == FALSE

\* Logger.getEffectiveLevel for 'datahub_actions' and its children (which
\* set no level of their own): the first level set on the way to the root
EffectiveLevel == IF dhLevel # NOTSET THEN dhLevel ELSE rootLevel

\* Logger.isEnabledFor
IsEnabledFor(levelno) == levelno >= EffectiveLevel

\* Logger.callHandlers: handlers of 'datahub_actions', then of the root
\* logger while propagate is set
HandlerChain == dhHandlers \o (IF dhPropagate THEN rootHandlers ELSE <<>>)

\* identities of the handlers that emit a record of this severity logged
\* through 'datahub_actions' or a child of it
Sinks(levelno) ==
    IF ~IsEnabledFor(levelno) THEN <<>>
    ELSE IF HandlerChain = <<>>
         THEN (IF HandlerAccepts(0, levelno) THEN <<0>> ELSE <<>>)
         ELSE SelectSeq(HandlerChain, LAMBDA h : HandlerAccepts(h, levelno))

Range(s) == {s[i] : i \in 1..Len(s)}

\* streams a record of this severity is written to
Streams(levelno) == {Hdlr(h).stream : h \in Range(Sinks(levelno))}

\* what one logger call writes
RECURSIVE EmitSeq(_, _)
EmitSeq(sinks, msg) ==
    IF sinks = <<>> THEN <<>>
    ELSE <<[stream |-> Hdlr(Head(sinks)).stream, msg |-> msg]>>
         \o EmitSeq(Tail(sinks), msg)

Emit(levelno, msg) == EmitSeq(Sinks(levelno), msg)

---------------------------------------------------------------------------
(* Exceptions: each with the classes it is an instance of *)

Bases(e) ==
    CASE e = "Abort" -> {"Abort", "RuntimeError", "Exception"}
      [] e = "UsageError" -> {"UsageError", "ClickException", "Exception"}
      [] e = "ClickException" -> {"ClickException", "Exception"}
      [] e = "OSError" -> {"OSError", "Exception"}
      [] e = "ValueError" -> {"ValueError", "Exception"}
      [] OTHER -> {}

\* what the sub-command may raise
SubCommandRaises == {"Abort", "UsageError", "ClickException", "OSError", "ValueError"}

\* variant: the clause for Exception is tried first
ExceptClauseGenericFirst(e) ==
    IF "Exception" \in Bases(e) THEN "other"
    ELSE IF "Abort" \in Bases(e) THEN "abort"
    ELSE IF "ClickException" \in Bases(e) THEN "click"
    ELSE "uncaught"

\* the except clauses of main, tried in order
ExceptClause(e) ==
    IF "Abort" \in Bases(e) THEN "abort"
    ELSE IF "ClickException" \in Bases(e) THEN "click"
    ELSE IF "Exception" \in Bases(e) THEN "other"
    ELSE "uncaught"

\* variant: a ClickException ends the process with code 0
ExitCodeForClickZero(clause) ==
    CASE clause = "abort" -> 1
      [] clause = "click" -> 0
      [] clause = "other" -> 1

\* the argument of sys.exit in each except clause
ExitCodeFor(clause) ==
    CASE clause = "abort" -> 1
      [] clause = "click" -> 1
      [] clause = "other" -> 1

\* sys.exit(value): None is code 0, an integer is itself
SysExitCode(value) == IF value = None THEN 0 ELSE value[1]

---------------------------------------------------------------------------
(* The state at process start, after the module is imported *)

Init ==
    /\ argv \in Argvs
    /\ env \in EnvValues
    /\ callerObj \in CallerObjs
    /\ ctxObj = callerObj
    /\ hdlr = <<BasicConfigHandler>>
    /\ rootLevel = WARNING
    /\ rootHandlers = <<1>>
    /\ dhLevel = NOTSET
    /\ dhHandlers = <<>>
    /\ dhPropagate = TRUE
    /\ info_handler = 0
    /\ error_handler = 0
    /\ file_handler = 0
    /\ startCalls = <<>>
    /\ listening = {}
    /\ bindFailed = FALSE
    /\ pc = "start"
    /\ exc = "none"
    /\ retval = None
    /\ exitCode = -1
    /\ out = <<>>
    /\ logCalls = <<>>
    /\ hist = <<>>
    /\ reconfigs = 0
    /\ invocations = 1

Raise(e) == pc' = "raised" /\ exc' = e

---------------------------------------------------------------------------
(* The steps of one run of main *)

\* datahub_actions(standalone_mode=False, **kwargs): click parses the
\* top-level flags.  An unknown option raises UsageError; --version prints
\* the version and ends the command with code 0, which click returns to the
\* caller when not in standalone mode; otherwise the callback is entered.
ParseFlags ==
    /\ pc = "start"
    /\ hist' = Append(hist, "parse")
    /\ CASE argv.form = "unknown_option" ->
              /\ Raise("UsageError")
              /\ UNCHANGED <<retval, out>>
         [] argv.form = "version" ->
              /\ pc' = "returned"
              /\ retval' = <<0>>
              /\ out' = Append(out, [stream |-> "stdout", msg |-> "version"])
              /\ exc' = exc
         [] argv.form = "subcommand" ->
              /\ pc' = "create"
              /\ UNCHANGED <<retval, out, exc>>
    /\ UNCHANGED <<inputVars, ctxObj, loggingVars, localVars, metricsVars,
                   exitCode, logCalls, reconfigs, invocations>>

\* steps 1 and 2 of the callback: the three handlers are created.  Opening
\* the log file may fail, and then nothing has been attached.
CreateHandlers ==
    /\ pc = "create"
    /\ hist' = Append(hist, "create")
    /\ \/ /\ hdlr' = hdlr \o <<NewInfoHandler, NewErrorHandler, NewFileHandler>>
          /\ info_handler' = Len(hdlr) + 1
          /\ error_handler' = Len(hdlr) + 2
          /\ file_handler' = Len(hdlr) + 3
          /\ pc' = "attach"
          /\ exc' = exc
       \/ /\ Raise("OSError")
          /\ UNCHANGED <<hdlr, localVars>>
    /\ UNCHANGED <<inputVars, ctxObj, rootLevel, rootHandlers, dhLevel,
                   dhHandlers, dhPropagate, metricsVars, retval, exitCode,
                   out, logCalls, reconfigs, invocations>>

\* the three addHandler calls and step 3, propagate
AttachHandlers ==
    /\ pc = "attach"
    /\ hist' = Append(hist, "attach")
    /\ dhHandlers' = dhHandlers \o <<info_handler, error_handler, file_handler>>
    /\ dhPropagate' = PropagateAfterSetup
    /\ pc' = "levels"
    /\ UNCHANGED <<inputVars, ctxObj, hdlr, rootLevel, rootHandlers, dhLevel,
                   localVars, metricsVars, exc, retval, exitCode, out,
                   logCalls, reconfigs, invocations>>

\* variant of step 4: the debug branch leaves the file handler's level alone
AdjustLevelsKeepsFileLevel ==
    /\ pc = "levels"
    /\ hist' = Append(hist, "levels")
    /\ IF DebugCondition(argv, env)
       THEN /\ rootLevel' = INFO
            /\ hdlr' = [hdlr EXCEPT ![info_handler].level = DEBUG]
            /\ dhLevel' = DEBUG
       ELSE /\ rootLevel' = WARNING
            /\ dhLevel' = INFO
            /\ hdlr' = hdlr
    /\ pc' = "metrics"
    /\ UNCHANGED <<inputVars, ctxObj, rootHandlers, dhHandlers, dhPropagate,
                   localVars, metricsVars, exc, retval, exitCode, out,
                   logCalls, reconfigs, invocations>>

\* step 4: adjust log levels
AdjustLevels ==
    /\ pc = "levels"
    /\ hist' = Append(hist, "levels")
    /\ IF DebugCondition(argv, env)
       THEN /\ rootLevel' = INFO
            /\ hdlr' = [hdlr EXCEPT ![info_handler].level = DEBUG,
                                    ![file_handler].level = DEBUG]
            /\ dhLevel' = DEBUG
       ELSE /\ rootLevel' = WARNING
            /\ dhLevel' = INFO
            /\ hdlr' = hdlr
    /\ pc' = "metrics"
    /\ UNCHANGED <<inputVars, ctxObj, rootHandlers, dhHandlers, dhPropagate,
                   localVars, metricsVars, exc, retval, exitCode, out,
                   logCalls, reconfigs, invocations>>

\* if enable_monitoring: start_http_server(monitoring_port)
ShouldStartMetrics(a) == enable_monitoring(a)

StartMetrics ==
    /\ pc = "metrics"
    /\ hist' = Append(hist, "metrics")
    /\ IF ShouldStartMetrics(argv)
       THEN /\ startCalls' = Append(startCalls, monitoring_port(argv))
            /\ \/ /\ listening' = listening \cup {monitoring_port(argv)}
                  /\ pc' = "context"
                  /\ UNCHANGED <<exc, bindFailed>>
               \/ /\ bindFailed' = TRUE
                  /\ Raise("OSError")
                  /\ listening' = listening
       ELSE /\ pc' = "context"
            /\ UNCHANGED <<metricsVars, exc>>
    /\ UNCHANGED <<inputVars, ctxObj, loggingVars, localVars, retval,
                   exitCode, out, logCalls, reconfigs, invocations>>

\* ctx.ensure_object(dict); ctx.obj["detect_memory_leaks"] = ...; the
\* callback returns and click invokes the sub-command
SetContext ==
    /\ pc = "context"
    /\ hist' = Append(hist, "context")
    /\ ctxObj' = SetLeakEntry(ensure_object(ctxObj), argv)
    /\ pc' = "dispatch"
    /\ UNCHANGED <<inputVars, loggingVars, localVars, metricsVars, exc,
                   retval, exitCode, out, logCalls, reconfigs, invocations>>

\* the sub-command runs to its end or raises
SubCommand ==
    /\ pc = "dispatch"
    /\ hist' = Append(hist, "subcommand")
    /\ \/ /\ pc' = "returned"
          /\ retval' = None
          /\ exc' = exc
       \/ /\ \E e \in SubCommandRaises : Raise(e)
          /\ retval' = retval
    /\ UNCHANGED <<inputVars, ctxObj, loggingVars, localVars, metricsVars,
                   exitCode, out, logCalls, reconfigs, invocations>>

\* sys.exit(datahub_actions(...)) when the call returns
SysExit ==
    /\ pc = "returned"
    /\ hist' = Append(hist, "exit")
    /\ exitCode' = SysExitCode(retval)
    /\ pc' = "exited"
    /\ UNCHANGED <<inputVars, ctxObj, loggingVars, localVars, metricsVars,
                   exc, retval, out, logCalls, reconfigs, invocations>>

\* except click.exceptions.Abort: sys.exit(1)
HandleAbort ==
    /\ pc = "raised"
    /\ ExceptClause(exc) = "abort"
    /\ hist' = Append(hist, "handle_abort")
    /\ exitCode' = ExitCodeFor("abort")
    /\ pc' = "exited"
    /\ UNCHANGED <<inputVars, ctxObj, loggingVars, localVars, metricsVars,
                   exc, retval, out, logCalls, reconfigs, invocations>>

\* except click.ClickException as error: error.show(); sys.exit(1)
HandleClickException ==
    /\ pc = "raised"
    /\ ExceptClause(exc) = "click"
    /\ hist' = Append(hist, "handle_click")
    /\ out' = Append(out, [stream |-> "stderr", msg |-> "error_message"])
    /\ exitCode' = ExitCodeFor("click")
    /\ pc' = "exited"
    /\ UNCHANGED <<inputVars, ctxObj, loggingVars, localVars, metricsVars,
                   exc, retval, logCalls, reconfigs, invocations>>

\* except Exception as exc: logger.error(stack trace); logger.info(tool
\* version); logger.info(runtime version); sys.exit(1).  logger is
\* 'datahub_actions.entrypoints', a child of 'datahub_actions'.
HandleException ==
    /\ pc = "raised"
    /\ ExceptClause(exc) = "other"
    /\ hist' = Append(hist, "handle_other")
    /\ logCalls' = logCalls \o <<[level |-> ERROR, msg |-> "stack_trace"],
                                 [level |-> INFO, msg |-> "tool_version"],
                                 [level |-> INFO, msg |-> "runtime_version"]>>
    /\ out' = out \o Emit(ERROR, "stack_trace") \o Emit(INFO, "tool_version")
                  \o Emit(INFO, "runtime_version")
    /\ exitCode' = ExitCodeFor("other")
    /\ pc' = "exited"
    /\ UNCHANGED <<inputVars, ctxObj, loggingVars, localVars, metricsVars,
                   exc, retval, reconfigs, invocations>>

---------------------------------------------------------------------------
(* Other code loaded in the process reconfigures the root logger while the *)
(* sub-command runs                                                        *)

ExternalLevels == {DEBUG, WARNING, ERROR}

RootSetLevel ==
    /\ \E l \in ExternalLevels : rootLevel' = l /\ l # rootLevel
    /\ UNCHANGED <<hdlr, rootHandlers>>

RootAddHandler ==
    /\ Len(rootHandlers) < MaxRootHandlers
    /\ \E s \in {"stdout", "stderr"} :
          hdlr' = Append(hdlr, [stream |-> s, level |-> NOTSET, filters |-> <<>>])
    /\ rootHandlers' = Append(rootHandlers, Len(hdlr) + 1)
    /\ rootLevel' = rootLevel

RootRemoveHandler ==
    /\ rootHandlers # <<>>
    /\ rootHandlers' = Tail(rootHandlers)
    /\ UNCHANGED <<hdlr, rootLevel>>

RootHandlerSetLevel ==
    /\ \E i \in 1..Len(rootHandlers) : \E l \in ExternalLevels :
          /\ hdlr[rootHandlers[i]].level # l
          /\ hdlr' = [hdlr EXCEPT ![rootHandlers[i]].level = l]
    /\ UNCHANGED <<rootLevel, rootHandlers>>

RootReconfig ==
    /\ pc = "dispatch"
    /\ reconfigs < MaxRootReconfigs
    /\ reconfigs' = reconfigs + 1
    /\ \/ RootSetLevel
       \/ RootAddHandler
       \/ RootRemoveHandler
       \/ RootHandlerSetLevel
    /\ UNCHANGED <<inputVars, ctxObj, dhLevel, dhHandlers, dhPropagate,
                   localVars, metricsVars, pc, exc, retval, exitCode, out,
                   logCalls, hist, invocations>>

---------------------------------------------------------------------------
(* The command group is invoked again in the same process (a caller that   *)
(* catches SystemExit, such as a test runner): the loggers and handlers    *)
(* stay as the earlier invocation left them; the command line and the      *)
(* environment are drawn anew, the caller passes the same obj              *)

Reinvoke ==
    /\ pc = "exited"
    /\ invocations < MaxInvocations
    /\ invocations' = invocations + 1
    /\ argv' \in Argvs
    /\ env' \in EnvValues
    /\ callerObj' = callerObj
    /\ ctxObj' = callerObj
    /\ info_handler' = 0
    /\ error_handler' = 0
    /\ file_handler' = 0
    /\ startCalls' = <<>>
    /\ bindFailed' = FALSE
    /\ pc' = "start"
    /\ exc' = "none"
    /\ retval' = None
    /\ exitCode' = -1
    /\ out' = <<>>
    /\ logCalls' = <<>>
    /\ hist' = <<>>
    /\ UNCHANGED <<loggingVars, listening, reconfigs>>

---------------------------------------------------------------------------

Next ==
    \/ ParseFlags
    \/ CreateHandlers
    \/ AttachHandlers
    \/ AdjustLevels
    \/ StartMetrics
    \/ SetContext
    \/ SubCommand
    \/ RootReconfig
    \/ SysExit
    \/ HandleAbort
    \/ HandleClickException
    \/ HandleException

Spec == Init /\ [][Next]_vars

NextReinvoke == Next \/ Reinvoke

SpecReinvoke == Init /\ [][NextReinvoke]_vars

---------------------------------------------------------------------------
(* Vocabulary of the properties *)

Done(step) == \E i \in 1..Len(hist) : hist[i] = step

Count(step) == Cardinality({i \in 1..Len(hist) : hist[i] = step})

Before(a, b) == \E i, j \in 1..Len(hist) : i < j /\ hist[i] = a /\ hist[j] = b

\* the callback is past "4. Adjust log-levels"
LevelsDone == Done("levels")

\* thresholds of the debug column and of the non-debug column; the ambient
\* threshold is compared as long as no other code has touched the root logger
DebugThresholds ==
    /\ dhLevel = DEBUG
    /\ hdlr[info_handler].level = DEBUG
    /\ hdlr[file_handler].level = DEBUG
    /\ hdlr[error_handler].level = WARNING
    /\ reconfigs = 0 => rootLevel = INFO

NonDebugThresholds ==
    /\ dhLevel = INFO
    /\ hdlr[info_handler].level = INFO
    /\ hdlr[file_handler].level = INFO
    /\ hdlr[error_handler].level = WARNING
    /\ reconfigs = 0 => rootLevel = WARNING

Thresholds ==
    <<rootLevel, dhLevel, hdlr[info_handler].level, hdlr[error_handler].level,
      hdlr[file_handler].level>>

\* a record of this message was written to this stream
Written(stream, msg) == \E i \in 1..Len(out) : out[i] = [stream |-> stream, msg |-> msg]

WrittenAnywhere(msg) == \E i \in 1..Len(out) : out[i].msg = msg

---------------------------------------------------------------------------
(* C1 *)

\* C1 as stated: the explicit flag takes precedence over DATAHUB_DEBUG; the
\* environment toggle decides the severity policy only when --debug/--no-debug
\* was not passed, so --no-debug with DATAHUB_DEBUG=true gives the non-debug
\* thresholds.
C1_ExplicitFlagPrecedence ==
    LevelsDone =>
        IF argv.debug # "omitted"
        THEN (IF argv.debug = "--debug" THEN DebugThresholds ELSE NonDebugThresholds)
        ELSE (IF env = "true" THEN DebugThresholds ELSE NonDebugThresholds)

\* C1 amended: the debug thresholds are in force exactly when --debug was
\* passed or DATAHUB_DEBUG is true.  An explicit --debug wins over the
\* environment; when the flag is false, by default or by an explicit
\* --no-debug, the environment toggle decides.
C1_FlagOrEnvironment ==
    LevelsDone =>
        IF argv.debug = "--debug" \/ env = "true"
        THEN DebugThresholds /\ ~NonDebugThresholds
        ELSE NonDebugThresholds /\ ~DebugThresholds

\* --no-debug was passed, DATAHUB_DEBUG is true, and the severity step set
\* the debug thresholds
C1_Witness ==
    /\ LevelsDone
    /\ argv.debug = "--no-debug"
    /\ env = "true"
    /\ DebugThresholds

---------------------------------------------------------------------------
(* C2 *)

\* C2: after bootstrap, a record logged through 'datahub_actions' or a child
\* at INFO or below is never written to standard error and reaches only
\* standard output and the file; a record at WARNING or above is never
\* written to standard output and reaches only standard error and the file;
\* no record is written to both standard output and standard error.
C2_SeverityRouting ==
    LevelsDone =>
        \A lv \in RecordLevels :
            /\ lv <= INFO => Streams(lv) \subseteq {"stdout", "file"}
            /\ lv >= WARNING => Streams(lv) \subseteq {"stderr", "file"}
            /\ ~({"stdout", "stderr"} \subseteq Streams(lv))

\* debug mode after bootstrap: a DEBUG record reaches standard output and the
\* file, an ERROR record reaches standard error and the file
C2_Witness ==
    /\ LevelsDone
    /\ DebugCondition(argv, env)
    /\ Streams(DEBUG) = {"stdout", "file"}
    /\ Streams(ERROR) = {"stderr", "file"}

---------------------------------------------------------------------------
(* C3 *)

\* the state part of C3: after the severity step the thresholds are those of
\* the column the debug condition selects
C3_Table ==
    LevelsDone =>
        IF DebugCondition(argv, env) THEN DebugThresholds ELSE NonDebugThresholds

\* C3: once the severity step is done the thresholds are those of the table
\* (debug: root INFO, logger = stdout sink = file sink = DEBUG, stderr sink
\* WARNING; otherwise root WARNING, logger = stdout sink = file sink = INFO,
\* stderr sink WARNING), and no later step of the bootstrap or of the error
\* translation changes any of them.
C3_ThresholdsSetOnce ==
    /\ []C3_Table
    /\ [][(LevelsDone /\ reconfigs' = reconfigs) => Thresholds' = Thresholds]_vars

\* the run ended through the error translation after a failed metrics start
\* in debug mode, with the debug thresholds still in force
C3_Witness ==
    /\ pc = "exited"
    /\ bindFailed
    /\ Done("handle_other")
    /\ DebugCondition(argv, env)
    /\ Thresholds = <<INFO, DEBUG, DEBUG, WARNING, DEBUG>>

---------------------------------------------------------------------------
(* C4 *)

\* C4: every run of main ends in a process exit; the code is 0 exactly when
\* nothing was raised and 1 whenever an abort, a ClickException or any other
\* exception was raised at any point of the dispatch; nothing is retried.
C4_ExitCodes ==
    /\ pc = "exited" \/ ENABLED Next
    /\ pc # "exited" => exitCode = -1
    /\ pc = "exited" =>
          /\ exitCode \in {0, 1}
          /\ exitCode = 0 <=> exc = "none"
          /\ exc # "none" => exitCode = 1
    /\ exc # "none" => pc \in {"raised", "exited"}
    /\ \A step \in {"parse", "create", "metrics", "subcommand"} : Count(step) <= 1

\* the sub-command raised an exception that is neither an abort nor a
\* ClickException and the process exited with code 1
C4_Witness ==
    /\ pc = "exited"
    /\ Done("subcommand")
    /\ exc = "ValueError"
    /\ exitCode = 1

---------------------------------------------------------------------------
(* C5 *)

\* C5: for any exception that is neither an abort nor a ClickException,
\* wherever in the dispatch it is raised, the process exits with code 1 and
\* before that the stack trace is written to standard error and both
\* diagnostic lines are actually emitted, in debug and in non-debug mode.
C5_DiagnosticsEmitted ==
    (pc = "exited" /\ ExceptClause(exc) = "other") =>
        /\ exitCode = 1
        /\ Written("stderr", "stack_trace")
        /\ WrittenAnywhere("tool_version")
        /\ WrittenAnywhere("runtime_version")

---------------------------------------------------------------------------
(* C6 *)

\* the state part of C6: after bootstrap, only handlers of 'datahub_actions'
\* receive its records, never a handler of the root logger
C6_NoRootDelivery ==
    LevelsDone =>
        \A lv \in RecordLevels :
            \A i \in 1..Len(Sinks(lv)) :
                /\ \E j \in 1..Len(dhHandlers) : dhHandlers[j] = Sinks(lv)[i]
                /\ \A j \in 1..Len(rootHandlers) : rootHandlers[j] # Sinks(lv)[i]

\* C6: after bootstrap, whatever reconfiguration of the root logger follows
\* (its level, its handlers, their levels), the sinks that receive each
\* record logged through the dedicated logger stay the same, and no such
\* record is delivered to a handler of the root logger.
C6_IndependentOfRoot ==
    /\ []C6_NoRootDelivery
    /\ [][(LevelsDone /\ reconfigs' # reconfigs) =>
             \A lv \in RecordLevels : Sinks(lv)' = Sinks(lv)]_vars

\* the root logger was reconfigured twice after bootstrap, it no longer has
\* the handlers and level the bootstrap left, and an INFO record still
\* reaches the stdout sink and the file sink
C6_Witness ==
    /\ LevelsDone
    /\ reconfigs = MaxRootReconfigs
    /\ rootHandlers # <<1>>
    /\ rootLevel = ERROR
    /\ Sinks(INFO) = <<info_handler, file_handler>>

---------------------------------------------------------------------------
(* C7 *)

\* C7: the metrics listener is started exactly when --enable-monitoring is
\* set, on the port of --monitoring-port (8000 when omitted), before the
\* sub-command is dispatched; at most one start call is made per invocation;
\* when the start call fails the sub-command is never dispatched and the
\* process exits with code 1.
C7_MetricsStart ==
    /\ Len(startCalls) <= 1
    /\ startCalls # <<>> =>
          /\ argv.monitoring
          /\ startCalls[1] = (IF argv.port = <<>> THEN 8000 ELSE argv.port[1])
    /\ listening \subseteq Range(startCalls)
    /\ pc = "dispatch" \/ Done("subcommand") =>
          /\ argv.monitoring <=> Len(startCalls) = 1
          /\ listening = Range(startCalls)
          /\ Before("metrics", "context")
    /\ bindFailed =>
          /\ ~Done("subcommand")
          /\ pc # "dispatch"
          /\ listening = {}
          /\ pc = "exited" => exitCode = 1

\* the sub-command is being dispatched with the listener bound to the port
\* given on the command line
C7_Witness ==
    /\ pc = "dispatch"
    /\ argv.port = <<9999>>
    /\ startCalls = <<9999>>
    /\ listening = {9999}

---------------------------------------------------------------------------
(* C8 *)

\* C8: the failures are translated in the order abort, ClickException, any
\* other exception, each by exactly one terminal action: an abort prints
\* nothing; a ClickException shows its own message, and neither a stack trace
\* nor the diagnostic lines are logged; only the third category logs the
\* stack trace and the diagnostic lines.  All three exit with code 1.
C8_Translation ==
    (pc = "exited" /\ exc # "none") =>
        /\ exitCode = 1
        /\ Count("handle_abort") + Count("handle_click") + Count("handle_other") = 1
        /\ exc = "Abort" =>
              /\ Done("handle_abort")
              /\ out = <<>>
              /\ logCalls = <<>>
        /\ exc \in {"UsageError", "ClickException"} =>
              /\ Done("handle_click")
              /\ out = <<[stream |-> "stderr", msg |-> "error_message"]>>
              /\ logCalls = <<>>
        /\ exc \in {"OSError", "ValueError"} =>
              /\ Done("handle_other")
              /\ logCalls = <<[level |-> ERROR, msg |-> "stack_trace"],
                              [level |-> INFO, msg |-> "tool_version"],
                              [level |-> INFO, msg |-> "runtime_version"]>>
              /\ ~WrittenAnywhere("error_message")

\* the sub-command was aborted and the process exited with code 1
C8_Witness ==
    /\ pc = "exited"
    /\ exc = "Abort"
    /\ Done("subcommand")
    /\ Done("handle_abort")
    /\ exitCode = 1

---------------------------------------------------------------------------
(* C9 *)

\* C9: whenever the callback has completed its logging setup, the logger
\* 'datahub_actions' has exactly three sinks (one to standard output, one to
\* standard error, one to the file) and propagation disabled, so each record
\* is written at most once to each destination, however many times the
\* command group is invoked within one process.
C9_ExactlyThreeSinks ==
    Done("attach") =>
        /\ Len(dhHandlers) = 3
        /\ \A s \in {"stdout", "stderr", "file"} :
              Cardinality({i \in 1..Len(dhHandlers) : hdlr[dhHandlers[i]].stream = s}) = 1
        /\ ~dhPropagate
        /\ \A lv \in RecordLevels : \A s \in {"stdout", "stderr", "file"} :
              Cardinality({i \in 1..Len(Sinks(lv)) : Hdlr(Sinks(lv)[i]).stream = s}) <= 1

---------------------------------------------------------------------------
(* C10 *)

\* C10: whenever a sub-command is dispatched the context holds
\* 'detect_memory_leaks' equal to the flag (false when omitted); the entry is
\* set after the logging setup and the optional metrics start, as the last
\* step before dispatch; only that entry is written, and the other entries of
\* a mapping supplied by the caller are left as they were.
C10_ContextEntry ==
    /\ ~Done("context") => ctxObj = callerObj
    /\ Done("context") =>
          /\ ctxObj # None
          /\ ctxObj[1]["detect_memory_leaks"] = (IF argv.dl THEN "True" ELSE "False")
          /\ \A k \in Keys \ {"detect_memory_leaks"} :
                ctxObj[1][k] = (IF callerObj = None THEN Absent ELSE callerObj[1][k])
          /\ Before("attach", "context")
          /\ Before("levels", "context")
          /\ Before("metrics", "context")
    /\ pc = "dispatch" => hist[Len(hist)] = "context"
    /\ Done("subcommand") =>
          \E i \in 1..(Len(hist) - 1) : hist[i] = "context" /\ hist[i + 1] = "subcommand"

\* the sub-command is being dispatched without -dl, with a caller's mapping
\* whose 'detect_memory_leaks' entry was overwritten and whose other entry
\* is intact
C10_Witness ==
    /\ pc = "dispatch"
    /\ ~argv.dl
    /\ callerObj # None
    /\ callerObj[1]["detect_memory_leaks"] = "True"
    /\ ctxObj[1]["detect_memory_leaks"] = "False"
    /\ ctxObj[1]["other"] = "x"

====
